---- MODULE Spec2Model ----
(***************************************************************************)
(* Frame-level aggregators of youtube-8m-cnn/frame_level_models.py.        *)
(*                                                                         *)
(* A run has two steps, as a TensorFlow 1 program has: create_model builds *)
(* the graph for a placeholder of static shape (batch, max_frames,         *)
(* feature_size), which fixes every tensor shape and creates the           *)
(* parameters; the graph is then evaluated on a batch.  Build_* actions    *)
(* do the shape arithmetic with the program's own constants; Run_* actions *)
(* evaluate the aggregation on a batch of two videos.                      *)
(*                                                                         *)
(* Real numbers are exact rationals <<num, den>> (den > 0, lowest terms);  *)
(* <<0, 0>> is NaN, the result of 0/0.  tanh, sigmoid and exp are          *)
(* transcendental; they are replaced by piecewise-linear rational          *)
(* functions with the same sign, symmetry, monotonicity and range.         *)
(* A filter's channels are all computed by one expression, each with its   *)
(* own weights: values are computed for one channel per filter, lengths    *)
(* for all of them.                                                        *)
(***************************************************************************)
EXTENDS Integers, Sequences, FiniteSets

\* ---------------------------------------------------------------- bounds
\* feature dimension of the dataset (shape[2])
FeatureSize == 2
\* number of classes (vocab_size)
VocabSize == 2
\* number of parameter settings a build may create
NumSeeds == 2
\* max_frames ranges over 1..SmallFrames and over
\* LargestFilter..LargestFilter+ExtraFrames; a video has up to SmallFrames
\* real frames or is full
SmallFrames == 3
ExtraFrames == 1
\* float values of the recurrent cell are kept to 1/Precision
Precision == 64

\* ------------------------------------------------------ program constants
filter_sizes == <<1, 3, 5, 10, 20>>
num_filters == <<400, 300, 200, 100, 100>>
FLAGS_iterations == 30
FLAGS_dbof_cluster_size == 8192
FLAGS_dbof_hidden_size == 1024
FLAGS_lstm_cells == 1024
FLAGS_lstm_layers == 2

NumFilterSizes == Len(filter_sizes)
LargestFilter == filter_sizes[NumFilterSizes]

\* a tensor holds its elements: the array f, every element computed once
Tensor(f) == f \o << >>

\* ------------------------------------------------------------- rationals
NaN == <<0, 0>>

IsNaN(a) == a[2] = 0

Abs(x) == IF x < 0 THEN -x ELSE x

RECURSIVE GCD(_, _)
GCD(a, b) == IF b = 0 THEN a ELSE GCD(b, a % b)

\* n/d in lowest terms; a zero divisor gives NaN (the only division by zero
\* the graphs perform is 0/0: every divisor is a sum of the non-negative
\* terms it divides, or num_frames >= 1)
RNorm(n, d) ==
    IF d = 0 THEN NaN
    ELSE LET g == GCD(Abs(n), Abs(d))
             s == IF d < 0 THEN -1 ELSE 1
         IN  <<(s * n) \div g, (s * d) \div g>>

RInt(n) == <<n, 1>>

RAdd(a, b) ==
    IF IsNaN(a) \/ IsNaN(b) THEN NaN
    ELSE RNorm(a[1] * b[2] + b[1] * a[2], a[2] * b[2])

RSub(a, b) ==
    IF IsNaN(a) \/ IsNaN(b) THEN NaN
    ELSE RNorm(a[1] * b[2] - b[1] * a[2], a[2] * b[2])

RMul(a, b) ==
    IF IsNaN(a) \/ IsNaN(b) THEN NaN
    ELSE RNorm(a[1] * b[1], a[2] * b[2])

RDiv(a, b) ==
    IF IsNaN(a) \/ IsNaN(b) THEN NaN
    ELSE RNorm(a[1] * b[2], a[2] * b[1])

RLess(a, b) == ~IsNaN(a) /\ ~IsNaN(b) /\ a[1] * b[2] < b[1] * a[2]

\* tf.greater(a, 0): false for NaN
RPos(a) == ~IsNaN(a) /\ a[1] > 0

\* sum of f[lo], ..., f[hi]
RECURSIVE RSumRange(_, _, _)
RSumRange(f, lo, hi) ==
    IF lo > hi THEN RInt(0) ELSE RAdd(f[lo], RSumRange(f, lo + 1, hi))

\* tf.reduce_sum over a whole axis
ReduceSum(f) == RSumRange(f, 1, Len(f))

RMaxOf(f) == CHOOSE m \in {f[i] : i \in DOMAIN f} :
                 \A i \in DOMAIN f : ~RLess(m, f[i])

\* ---------------------------------------------------------- nonlinearities
\* clip x to [-2, 2]
Clip2(x) ==
    IF IsNaN(x) THEN NaN
    ELSE IF RLess(x, RInt(-2)) THEN RInt(-2)
    ELSE IF RLess(RInt(2), x) THEN RInt(2)
    ELSE x

\* tf.tanh: odd, increasing, within [-1, 1], tanh(0) = 0
Tanh(x) == RDiv(Clip2(x), RInt(2))

\* tf.nn.sigmoid: increasing, within (0, 1), sigmoid(0) = 1/2,
\* sigmoid(-x) = 1 - sigmoid(x)
Sigmoid(x) == RDiv(RAdd(RInt(3), Clip2(x)), RInt(6))

\* exp on arguments <= 0: positive, increasing, exp(0) = 1
Exp(x) == IF IsNaN(x) THEN NaN ELSE RDiv(RInt(1), RSub(RInt(1), x))

\* tf.nn.softmax over the last axis of a row (computed, as TensorFlow does,
\* on the row minus its maximum)
Softmax(row) ==
    IF \E i \in DOMAIN row : IsNaN(row[i]) THEN [i \in DOMAIN row |-> NaN]
    ELSE LET m == RMaxOf(row)
             e == Tensor([i \in DOMAIN row |-> Exp(RSub(row[i], m))])
             s == ReduceSum(e)
         IN  Tensor([i \in DOMAIN row |-> RDiv(e[i], s)])

\* ------------------------------------------------------------------ state
VARIABLES
    pc,            \* "init", "built", "failed" (create_model raised),
                   \* "running" (inside dynamic_rnn's loop), "done"
    model,         \* the class whose create_model was called, or "none"
    max_frames,    \* shape[1] of the model_input placeholder
    seed,          \* which values the parameters created by the build hold
    dbof,          \* DbofModel's resolved options
    slices,        \* CnnModel: the [slice, slice + step] pairs
    h_shapes,      \* CnnModel: h_shape[1] of every filter built so far
    out_len,       \* length of the vector handed to the classifier
    model_input,   \* [video -> [slot -> [feature -> Int]]]
    num_frames,    \* [video -> Int]
    frames_bool,   \* [video -> [slot -> 0 or 1]]
    logits,        \* AttentionModel: xw_plus_b per video and slot
    divisors,      \* per normalisation: [video -> the sum divided by]
    weights,       \* per normalisation: [video -> [slot -> weight]]
    conv_lens,     \* CnnModel: per filter, [video -> positions of h_out]
    state,         \* [video -> the aggregated vector]
    time,          \* LstmModel: the loop counter of dynamic_rnn
    output_avg,    \* MixLogisticModel: output after line 483
    output,        \* MixLogisticModel: output after line 484
    predictions    \* [video -> [class -> probability]]

shapeVars == <<max_frames, seed, dbof, slices, h_shapes, out_len>>
runVars == <<model_input, num_frames, frames_bool, logits, divisors, weights,
             conv_lens, state, time, output_avg, output, predictions>>
vars == <<pc, model, shapeVars, runVars>>

feature_size == FeatureSize
vocab_size == VocabSize

Videos == 1..2
Features == 1..feature_size
Classes == 1..vocab_size

FrameChoices == (1..SmallFrames) \cup (LargestFilter..(LargestFilter + ExtraFrames))

\* ------------------------------------------------------------- parameters
\* entry (i, j) of a weight matrix under parameter setting s: -1, 0 or 1
Wgt(s, i, j) == ((s + i + 2 * j) % 3) - 1

\* tf.constant(0.1): the bias of the attention map and of every filter
Bias == RNorm(1, 10)

\* ------------------------------------------------------------------ shapes
\* Python's `a or b` on an argument that is None, False or True
PyOrUnlessNone(a, b) == IF a = "None" THEN b ELSE a
PyOr(a, b) == IF a \in {"None", "False"} THEN b ELSE a

\* the branch `if v:` takes for a boolean option resolved by PyOr
PyIf(v) == v = "True"

\* lines 127-132: the sampling utility called
Sampler(random_frames) ==
    IF PyIf(random_frames) THEN "SampleRandomFrames" ELSE "SampleRandomSequence"

\* lines 138-144, 151-162, 175-186: the slim.batch_norm scopes created, or
\* the bias variables created in their place
BatchNormScopes(add_batch_norm) ==
    IF PyIf(add_batch_norm) THEN <<"input_bn", "cluster_bn", "hidden1_bn">>
    ELSE << >>

BiasVariables(add_batch_norm) ==
    IF PyIf(add_batch_norm) THEN << >>
    ELSE <<"cluster_biases", "hidden1_biases">>

\* static shape of the model_input placeholder
InputShape(L) == <<Cardinality(Videos), L, feature_size>>

ShapeReduceLast(shape, axis) == SubSeq(shape, 1, Len(shape) - 1)
\* tf.reduce_sum(x, axis=axis): the axis (0-based) is removed
ShapeReduceSum(shape, axis) ==
    [i \in 1..(Len(shape) - 1) |-> IF i <= axis THEN shape[i] ELSE shape[i + 1]]

\* tf.matmul of (rows, k) and (k, cols)
ShapeMatmul(a, b) == <<a[1], b[2]>>

\* LstmModel: state of MultiRNNCell of BasicLSTMCells, state_is_tuple=False:
\* the concatenation of (c, h) of each layer
LstmStateLen == FLAGS_lstm_layers * (2 * FLAGS_lstm_cells)

ConvOutLenSame(L, w) == L
\* tf.nn.conv2d, padding="VALID", stride 1, filter height w over L rows
ConvOutLen(L, w) == L - w + 1

\* conv2d's shape inference raises when the filter is taller than the input
ConvFails(L, w) == L < w

\* lines 334-340
steps == [i \in 1..NumFilterSizes |-> IF i = 1 THEN 1 ELSE filter_sizes[i] \div 2]

SliceOf(L, i) == ((L - steps[i]) \div filter_sizes[i]) * filter_sizes[i]

\* the filters of the loop at line 393 that are built: all of them, or those
\* before the first one conv2d rejects
RECURSIVE BuiltFilters(_, _)
BuiltFilters(L, i) ==
    IF i > NumFilterSizes \/ ConvFails(L, filter_sizes[i]) THEN 0
    ELSE 1 + BuiltFilters(L, i + 1)

\* pooled: reduce_sum over axis 1 of (batch, h_shape[1], num_filter)
PooledShape(L, i) ==
    ShapeReduceSum(<<Cardinality(Videos), ConvOutLen(L, filter_sizes[i]),
                     num_filters[i]>>, 1)

\* tf.concat(pooled_outputs, 1) of the first i filters: the lengths add up
RECURSIVE HPoolLen(_, _)
HPoolLen(L, i) == IF i = 0 THEN 0 ELSE PooledShape(L, i)[2] + HPoolLen(L, i - 1)

NoRun == /\ model_input = << >> /\ num_frames = << >> /\ frames_bool = << >>
         /\ logits = << >> /\ divisors = << >> /\ weights = << >>
         /\ conv_lens = << >>
         /\ state = << >> /\ time = 0 /\ output_avg = << >> /\ output = << >>
         /\ predictions = << >>

Init ==
    /\ pc = "init"
    /\ model = "none"
    /\ max_frames \in FrameChoices
    /\ seed = 0
    /\ dbof = << >>
    /\ slices = << >>
    /\ h_shapes = << >>
    /\ out_len = 0
    /\ NoRun

Build_FrameLevelLogistic ==
    /\ pc = "init"
    /\ pc' = "built"
    /\ model' = "FrameLevelLogisticModel"
    /\ out_len' = ShapeReduceSum(InputShape(max_frames), 1)[2]
    /\ UNCHANGED <<max_frames, seed, dbof, slices, h_shapes, runVars>>

ArgChoices == {"None", "True", "False"}
FlagChoices == {"True", "False"}

\* lines 120-135 and 167-174; SampleRandomFrames / SampleRandomSequence return
\* `iterations` frames per video, so max_frames is `iterations` from line 133 on
Build_Dbof ==
    /\ pc = "init"
    /\ \E add_batch_norm \in ArgChoices, sample_random_frames \in ArgChoices,
          FLAGS_dbof_add_batch_norm \in FlagChoices,
          FLAGS_sample_random_frames \in FlagChoices :
          LET iterations == PyOr("None", FLAGS_iterations)
              cluster_size == PyOr("None", FLAGS_dbof_cluster_size)
              hidden1_size == PyOr("None", FLAGS_dbof_hidden_size)
              bn == PyOr(add_batch_norm, FLAGS_dbof_add_batch_norm)
              random_frames == PyOr(sample_random_frames,
                                    FLAGS_sample_random_frames)
          IN  /\ dbof' = [iterations |-> iterations,
                          add_batch_norm |-> bn,
                          random_frames |-> random_frames,
                          sampler |-> Sampler(random_frames),
                          batch_norms |-> BatchNormScopes(bn),
                          biases |-> BiasVariables(bn),
                          arg_add_batch_norm |-> add_batch_norm,
                          arg_sample_random_frames |-> sample_random_frames,
                          flag_add_batch_norm |-> FLAGS_dbof_add_batch_norm,
                          flag_sample_random_frames |-> FLAGS_sample_random_frames,
                          sampled_frames |-> iterations,
                          cluster_size |-> cluster_size]
              /\ out_len' = ShapeMatmul(<<Cardinality(Videos), cluster_size>>,
                                        <<cluster_size, hidden1_size>>)[2]
    /\ pc' = "built"
    /\ model' = "DbofModel"
    /\ UNCHANGED <<max_frames, seed, slices, h_shapes, runVars>>

Build_Lstm ==
    /\ pc = "init"
    /\ pc' = "built"
    /\ model' = "LstmModel"
    /\ seed' \in 1..NumSeeds
    /\ out_len' = LstmStateLen
    /\ UNCHANGED <<max_frames, dbof, slices, h_shapes, runVars>>

Build_Attention ==
    /\ pc = "init"
    /\ pc' = "built"
    /\ model' = "AttentionModel"
    /\ seed' \in 1..NumSeeds
    /\ out_len' = ShapeReduceSum(InputShape(max_frames), 1)[2]
    /\ UNCHANGED <<max_frames, dbof, slices, h_shapes, runVars>>

Build_Cnn ==
    /\ pc = "init"
    /\ model' = "CnnModel"
    /\ seed' \in 1..NumSeeds
    /\ slices' = [i \in 1..NumFilterSizes |->
                     <<SliceOf(max_frames, i), SliceOf(max_frames, i) + steps[i]>>]
    /\ LET k == BuiltFilters(max_frames, 1)
       IN  /\ h_shapes' = [i \in 1..k |-> ConvOutLen(max_frames, filter_sizes[i])]
           /\ IF k = NumFilterSizes
              THEN pc' = "built" /\ out_len' = HPoolLen(max_frames, k)
              ELSE pc' = "failed" /\ out_len' = 0
    /\ UNCHANGED <<max_frames, dbof, runVars>>

Build_MixLogistic ==
    /\ pc = "init"
    /\ pc' = "built"
    /\ model' = "MixLogisticModel"
    /\ seed' \in 1..NumSeeds
    /\ out_len' = ShapeReduceSum(InputShape(max_frames), 1)[2]
    /\ UNCHANGED <<max_frames, dbof, slices, h_shapes, runVars>>

\* ------------------------------------------------------------------ inputs
ZeroVec == Tensor([j \in Features |-> 0])
AltVec == Tensor([j \in Features |-> IF j % 2 = 1 THEN 1 ELSE -1])
RampVec == Tensor([j \in Features |-> j])
Vecs == {ZeroVec, AltVec, RampVec}

\* the vectors slot 1 holds, and those the later real slots hold
HeadVecs == Vecs
TailVecs == {ZeroVec, RampVec}

\* what the slots past the frame count hold in the two videos of a batch:
\* zeros, or zeros and one nonzero vector in the first or in the last of them
PadPairs == {<<"zero", "zero">>, <<"zero", "first">>, <<"zero", "last">>,
             <<"first", "last">>}

\* a video of L slots with n real frames: slot 1 holds head, the other real
\* slots hold tail
Video(L, n, head, tail, pad) ==
    Tensor([t \in 1..L |->
        IF t <= n THEN (IF t = 1 THEN head ELSE tail)
        ELSE IF (pad = "first" /\ t = n + 1) \/ (pad = "last" /\ t = L)
             THEN RampVec
             ELSE ZeroVec])

\* ------------------------------------------------------- shared operations
RECURSIVE SumRange(_, _, _)
SumRange(f, lo, hi) == IF lo > hi THEN 0 ELSE f[lo] + SumRange(f, lo + 1, hi)

FramesBoolNoAbs(x) ==
    Tensor([t \in DOMAIN x |->
        IF SumRange([j \in Features |-> x[t][j]], 1, feature_size) > 0
        THEN 1 ELSE 0])
\* lines 256-259, 344-347, 465-468: frames_sum = reduce_sum(abs(model_input),
\* axis=2); frames_bool = where(frames_sum > 0, 1, 0)
FramesBool(x) ==
    Tensor([t \in DOMAIN x |->
        IF SumRange([j \in Features |-> Abs(x[t][j])], 1, feature_size) > 0
        THEN 1 ELSE 0])

NormalizeByLength(f) == Tensor([t \in DOMAIN f |-> RDiv(f[t], RInt(Len(f)))])
\* f / tf.reduce_sum(f, axis=1, keep_dims=True)   (lines 275, 407, 470, 484)
Normalize(f) ==
    LET total == ReduceSum(f)
    IN  Tensor([t \in DOMAIN f |-> RDiv(f[t], total)])

\* reduce_sum(model_input, axis=[1]) / denominators   (lines 77-80, 262-265)
AvgPooled(x, n) ==
    Tensor([j \in Features |->
        RDiv(RInt(SumRange([t \in DOMAIN x |-> x[t][j]], 1, Len(x))), RInt(n))])

\* reduce_sum(values * reshape(w, [-1, L, 1]), axis=1): values[t] is the
\* vector of slot t, w[t] its weight
WeightedSum(values, w, dim) ==
    Tensor([j \in 1..dim |->
        ReduceSum([t \in DOMAIN values |-> RMul(values[t][j], w[t])])])

ToReal(x) ==
    Tensor([t \in DOMAIN x |-> Tensor([j \in DOMAIN x[t] |-> RInt(x[t][j])])])

\* slim.fully_connected(v, cols, activation_fn=tf.nn.sigmoid): weights of
\* parameter setting s, biases at their zero initial value
FullyConnectedSigmoid(v, s, cols) ==
    Tensor([c \in 1..cols |->
        Sigmoid(ReduceSum([j \in DOMAIN v |-> RMul(v[j], RInt(Wgt(s, j, c)))]))])

\* slim.fully_connected(v, cols, activation_fn=tf.tanh)
FullyConnectedTanh(v, s, cols) ==
    Tensor([c \in 1..cols |->
        Tanh(ReduceSum([j \in DOMAIN v |-> RMul(v[j], RInt(Wgt(s, j, c)))]))])

\* the video-level classifier named by FLAGS.video_level_classifier_model:
\* a fixed-size vector to one probability per class
Classifier(v, s) == FullyConnectedSigmoid(v, s + 2, vocab_size)

\* ----------------------------------------------------------- AttentionModel
\* lines 262-273: xw_plus_b(concat([model_input, avg_pooled]), W, b), one
\* scalar per slot
AttentionLogits(x, n, s) ==
    LET avg == AvgPooled(x, n)
        attention_input ==
            Tensor([t \in DOMAIN x |->
                Tensor([i \in 1..(2 * feature_size) |->
                    IF i <= feature_size THEN RInt(x[t][i])
                    ELSE avg[i - feature_size]])])
    IN  Tensor([t \in DOMAIN x |->
            RAdd(ReduceSum([i \in 1..(2 * feature_size) |->
                               RMul(attention_input[t][i], RInt(Wgt(s, i, 1)))]),
                 Bias)])

\* line 273: tf.nn.softmax of the (batch * max_frames, 1) matrix of logits:
\* the softmax runs over the last axis, which holds the one logit of a slot
AttentionSoftmax(lg) == Tensor([t \in DOMAIN lg |-> Softmax(<<lg[t]>>)[1]])

AttentionUnmasked(sm, mask) == sm
\* line 274: reshape(output, [-1, max_frames]) * frames_bool
AttentionMasked(sm, mask) ==
    Tensor([t \in DOMAIN sm |-> RMul(sm[t], RInt(mask[t]))])

\* ----------------------------------------------------------------- CnnModel
\* lines 396-401: one channel of tanh(conv2d(cnn_input, W) + b) at output
\* position t: the window is slots t .. t + w - 1
ConvAt(x, s, w, t) ==
    Tanh(RAdd(RInt(SumRange(
                  [k \in 1..w |->
                      SumRange([j \in Features |-> x[t + k - 1][j] * Wgt(s, k, j)],
                               1, feature_size)],
                  1, w)),
              Bias))

ConvH(x, s, w) ==
    Tensor([t \in 1..ConvOutLen(Len(x), w) |-> ConvAt(x, s, w, t)])

\* line 406: frames_bool[:, 0:h_shape[1]]
FrameBoolSlice(mask, h_len) == Tensor([t \in 1..h_len |-> RInt(mask[t])])

\* line 409 for one channel: reduce_sum(h_out * frame_bool, axis=1)
Pooled(h, w) == ReduceSum([t \in DOMAIN h |-> RMul(h[t], w[t])])

\* --------------------------------------------------------- MixLogisticModel
\* lines 474-476, per slot
MixHidden(x, s) ==
    LET xr == ToReal(x)
    IN  Tensor([t \in DOMAIN x |-> FullyConnectedTanh(xr[t], s, feature_size)])

\* lines 478-480: the per-frame prediction on a slot holding vector v
MixFramePrediction(v, s) ==
    FullyConnectedSigmoid(
        FullyConnectedTanh([j \in Features |-> RInt(v[j])], s, feature_size),
        s + 1, vocab_size)

\* ------------------------------------------------- one video through a graph
\* FrameLevelLogisticModel.create_model, lines 72-84
FrameLevelLogisticVideo(x, n) ==
    LET avg_pooled == AvgPooled(x, n)
    IN  [divisor |-> RInt(n),
         state |-> avg_pooled,
         predictions |-> FullyConnectedSigmoid(avg_pooled, 1, vocab_size)]

\* AttentionModel.create_model, lines 256-285
AttentionVideo(x, n, s) ==
    LET mask == FramesBool(x)
        lg == AttentionLogits(x, n, s)
        out == AttentionMasked(AttentionSoftmax(lg), mask)
        atten == Normalize(out)
        st == WeightedSum(ToReal(x), atten, feature_size)
    IN  [frames_bool |-> mask,
         logits |-> lg,
         divisor |-> ReduceSum(out),
         weights |-> atten,
         state |-> st,
         predictions |-> Classifier(st, s)]

\* CnnModel.create_model, lines 393-410, for the filter of width w whose
\* output has h_len positions
CnnFilter(x, mask, s, w, h_len) ==
    LET h_out == ConvH(x, s, w)
        slice == FrameBoolSlice(mask, h_len)
        frame_bool == Normalize(slice)
    IN  [conv_len |-> Len(h_out),
         divisor |-> ReduceSum(slice),
         weights |-> frame_bool,
         pooled |-> Pooled(h_out, frame_bool)]

\* CnnModel.create_model, lines 344-347 and 393-438
CnnVideo(x, s, hs) ==
    LET mask == FramesBool(x)
        f == Tensor([i \in 1..NumFilterSizes |->
                        CnnFilter(x, mask, s, filter_sizes[i], hs[i])])
        h_pool == Tensor([i \in 1..NumFilterSizes |-> f[i].pooled])
    IN  [frames_bool |-> mask,
         conv_len |-> Tensor([i \in 1..NumFilterSizes |-> f[i].conv_len]),
         divisor |-> Tensor([i \in 1..NumFilterSizes |-> f[i].divisor]),
         weights |-> Tensor([i \in 1..NumFilterSizes |-> f[i].weights]),
         state |-> h_pool,
         predictions |-> Classifier(h_pool, s)]

\* MixLogisticModel.create_model, lines 462-491
MixLogisticVideo(x, s) ==
    LET L == Len(x)
        mask == FramesBool(x)
        maskR == FrameBoolSlice(mask, L)
        fb == Normalize(maskR)
        hidden == MixHidden(x, s)
        perframe == Tensor([t \in 1..L |->
                        FullyConnectedSigmoid(hidden[t], s + 1, vocab_size)])
        videofeatures == WeightedSum(hidden, fb, feature_size)
        avg == WeightedSum(perframe, fb, vocab_size)
        outp == Normalize(avg)
        result == Classifier(videofeatures, s)
    IN  [frames_bool |-> mask,
         divisor |-> ReduceSum(maskR),
         weights |-> fb,
         state |-> videofeatures,
         output_avg |-> avg,
         output |-> outp,
         predictions |-> Tensor([c \in Classes |->
                             RDiv(RAdd(result[c], outp[c]), RInt(2))])]

\* ---------------------------------------------------------------- LstmModel
\* dtype=tf.float32 (line 230): the result of an operation is rounded to a
\* grid of Precision steps per unit
RoundF(a) == IF IsNaN(a) THEN NaN ELSE RNorm((a[1] * Precision) \div a[2], Precision)

\* BasicLSTMCell(lstm_size, forget_bias=1.0, state_is_tuple=False) on one
\* unit: the gates i, j, f, o are the four columns of [inp, h] * W (biases at
\* their zero initial value); the weights are those of parameter setting s
LstmCellStep(inp, c, h, s) ==
    LET cat == inp \o <<h>>
        gate(g) == RoundF(ReduceSum(Tensor([k \in DOMAIN cat |->
                              RMul(cat[k], RInt(Wgt(s, k, g)))])))
        i == gate(1)
        j == gate(2)
        f == gate(3)
        o == gate(4)
        new_c == RoundF(RAdd(RMul(c, Sigmoid(RAdd(f, RInt(1)))),
                             RMul(Sigmoid(i), Tanh(j))))
        new_h == RoundF(RMul(Tanh(new_c), Sigmoid(o)))
    IN  <<new_c, new_h>>

\* MultiRNNCell(..., state_is_tuple=False): layer k reads its (c, h) from
\* the concatenated state, is fed the h of the layer below, and the new
\* state is the concatenation of the layers' new (c, h)
RECURSIVE MultiRNNCell(_, _, _, _)
MultiRNNCell(inp, st, s, layer) ==
    IF layer > FLAGS_lstm_layers THEN << >>
    ELSE LET cur == LstmCellStep(inp, st[2 * layer - 1], st[2 * layer], s + layer)
         IN  cur \o MultiRNNCell(<<cur[2]>>, st, s, layer + 1)

\* the zero state dynamic_rnn starts from when no initial_state is given
LstmZeroState == Tensor([k \in 1..(2 * FLAGS_lstm_layers) |-> RInt(0)])

LstmNeverCopy(t, n) == FALSE
\* dynamic_rnn with sequence_length: at time >= sequence_length the state is
\* copied through instead of the cell's new state
LstmCopyCond(t, n) == t >= n

\* one iteration of dynamic_rnn's loop for one video: slot t (0-based) is fed
\* to the stacked cell
RnnStep(x, n, st, t, s) ==
    IF LstmCopyCond(t, n) THEN st
    ELSE MultiRNNCell(Tensor([j \in DOMAIN x[t + 1] |-> RInt(x[t + 1][j])]),
                      st, s, 1)

\* ------------------------------------------------------------------- runs
\* the frame counts of the videos fed to a graph of L slots: every video has
\* at least one real frame
FrameCounts(L) == {n \in 1..L : n <= SmallFrames \/ n = L}

\* the batches a run is fed: two videos with the same frame count and the
\* same real frames, each with its own content past the frame count
Inputs ==
    {[model_input |->
          Tensor([b \in Videos |-> Video(max_frames, n, head, tail, pad[b])]),
      num_frames |-> Tensor([b \in Videos |-> n])] :
        n \in FrameCounts(max_frames), head \in HeadVecs, tail \in TailVecs,
        pad \in PadPairs}

Field(r, name) == Tensor([b \in Videos |-> r[b][name]])

Run_FrameLevelLogistic ==
    /\ pc = "built" /\ model = "FrameLevelLogisticModel"
    /\ \E inp \in Inputs :
       \E r \in {Tensor([b \in Videos |->
                    FrameLevelLogisticVideo(inp.model_input[b],
                                            inp.num_frames[b])])} :
          /\ model_input' = inp.model_input
          /\ num_frames' = inp.num_frames
          /\ divisors' = <<Field(r, "divisor")>>
          /\ state' = Field(r, "state")
          /\ predictions' = Field(r, "predictions")
    /\ pc' = "done"
    /\ UNCHANGED <<model, shapeVars, frames_bool, logits, weights, conv_lens,
                   time, output_avg, output>>

Run_Attention ==
    /\ pc = "built" /\ model = "AttentionModel"
    /\ \E inp \in Inputs :
       \E r \in {Tensor([b \in Videos |->
                    AttentionVideo(inp.model_input[b], inp.num_frames[b],
                                   seed)])} :
          /\ model_input' = inp.model_input
          /\ num_frames' = inp.num_frames
          /\ frames_bool' = Field(r, "frames_bool")
          /\ logits' = Field(r, "logits")
          /\ divisors' = <<Field(r, "divisor")>>
          /\ weights' = <<Field(r, "weights")>>
          /\ state' = Field(r, "state")
          /\ predictions' = Field(r, "predictions")
    /\ pc' = "done"
    /\ UNCHANGED <<model, shapeVars, conv_lens, time, output_avg, output>>

Run_Cnn ==
    /\ pc = "built" /\ model = "CnnModel"
    /\ \E inp \in Inputs :
       \E r \in {Tensor([b \in Videos |->
                    CnnVideo(inp.model_input[b], seed, h_shapes)])} :
          /\ model_input' = inp.model_input
          /\ num_frames' = inp.num_frames
          /\ frames_bool' = Field(r, "frames_bool")
          /\ divisors' = Tensor([i \in 1..NumFilterSizes |->
                             Tensor([b \in Videos |-> r[b].divisor[i]])])
          /\ weights' = Tensor([i \in 1..NumFilterSizes |->
                            Tensor([b \in Videos |-> r[b].weights[i]])])
          /\ conv_lens' = Tensor([i \in 1..NumFilterSizes |->
                              Tensor([b \in Videos |-> r[b].conv_len[i]])])
          /\ state' = Field(r, "state")
          /\ predictions' = Field(r, "predictions")
    /\ pc' = "done"
    /\ UNCHANGED <<model, shapeVars, logits, time, output_avg, output>>

Run_MixLogistic ==
    /\ pc = "built" /\ model = "MixLogisticModel"
    /\ \E inp \in Inputs :
       \E r \in {Tensor([b \in Videos |->
                    MixLogisticVideo(inp.model_input[b], seed)])} :
          /\ model_input' = inp.model_input
          /\ num_frames' = inp.num_frames
          /\ frames_bool' = Field(r, "frames_bool")
          /\ divisors' = <<Field(r, "divisor")>>
          /\ weights' = <<Field(r, "weights")>>
          /\ state' = Field(r, "state")
          /\ output_avg' = Field(r, "output_avg")
          /\ output' = Field(r, "output")
          /\ predictions' = Field(r, "predictions")
    /\ pc' = "done"
    /\ UNCHANGED <<model, shapeVars, logits, conv_lens, time>>

\* LstmModel, lines 228-230: dynamic_rnn is fed the batch and starts its loop
\* at time 0 from the zero state
Lstm_Feed ==
    /\ pc = "built" /\ model = "LstmModel"
    /\ \E inp \in Inputs :
          /\ model_input' = inp.model_input
          /\ num_frames' = inp.num_frames
    /\ state' = Tensor([b \in Videos |-> LstmZeroState])
    /\ time' = 0
    /\ pc' = "running"
    /\ UNCHANGED <<model, shapeVars, frames_bool, logits, divisors, weights,
                   conv_lens, output_avg, output, predictions>>

\* one iteration of the loop: every video's state is stepped at slot `time`
Lstm_Step ==
    /\ pc = "running" /\ time < max_frames
    /\ \E r \in {Tensor([b \in Videos |->
                    RnnStep(model_input[b], num_frames[b], state[b], time,
                            seed)])} :
          state' = r
    /\ time' = time + 1
    /\ UNCHANGED <<pc, model, shapeVars, model_input, num_frames, frames_bool,
                   logits, divisors, weights, conv_lens, output_avg, output,
                   predictions>>

\* lines 232-237: the loop has run over all max_frames slots; the final state
\* is handed to the classifier
Lstm_Return ==
    /\ pc = "running" /\ time = max_frames
    /\ \E r \in {Tensor([b \in Videos |-> Classifier(state[b], seed)])} :
          predictions' = r
    /\ pc' = "done"
    /\ UNCHANGED <<model, shapeVars, model_input, num_frames, frames_bool,
                   logits, divisors, weights, conv_lens, state, time,
                   output_avg, output>>

Next ==
    \/ Build_FrameLevelLogistic
    \/ Build_Dbof
    \/ Build_Lstm
    \/ Build_Attention
    \/ Build_Cnn
    \/ Build_MixLogistic
    \/ Run_FrameLevelLogistic
    \/ Run_Attention
    \/ Run_Cnn
    \/ Run_MixLogistic
    \/ Lstm_Feed
    \/ Lstm_Step
    \/ Lstm_Return

Spec == Init /\ [][Next]_vars

\* ================================================================= claims
Ran(m) == pc = "done" /\ model = m

MaskingModels == {"AttentionModel", "CnnModel", "MixLogisticModel"}

Slots == 1..max_frames

\* slot t of video b holds a nonzero feature value
NonzeroSlot(b, t) == \E j \in Features : model_input[b][t][j] # 0

\* the two videos of the batch have the same frame count and the same frames
\* below it
SameRealFrames ==
    /\ num_frames[1] = num_frames[2]
    /\ \A t \in 1..num_frames[1] : model_input[1][t] = model_input[2][t]

\* the slots past the frame count hold the same vectors in both videos, each
\* as often: one video's padding is a permutation of the other's
PaddingPermuted ==
    \A v \in Vecs :
        Cardinality({t \in Slots : t > num_frames[1] /\ model_input[1][t] = v})
      = Cardinality({t \in Slots : t > num_frames[2] /\ model_input[2][t] = v})

ZeroPadded(b) ==
    \A t \in Slots : t > num_frames[b] => model_input[b][t] = ZeroVec

\* every real frame of video b holds a nonzero feature value
RealFramesNonzero(b) == \A t \in Slots : t <= num_frames[b] => NonzeroSlot(b, t)

\* C1: for the attention, convolutional, mixture and frame-average
\* aggregators, two inputs that agree on every slot below the frame count
\* and differ in any way at or past it give the same aggregated vector
\* (stated for videos whose real frames are all nonzero, where no aggregator
\* divides by zero).
C1_PaddingNeverInfluences ==
    (/\ pc = "done"
     /\ model \in MaskingModels \cup {"FrameLevelLogisticModel"}
     /\ SameRealFrames
     /\ \A b \in Videos : RealFramesNonzero(b))
    => state[1] = state[2]

\* C2: permuting the slots at or past the frame count, the slots below it
\* left as they are, does not change the aggregated vector (stated for
\* videos whose real frames are all nonzero, where no aggregator divides by
\* zero).
C2_PaddingPermutationInvariant ==
    (/\ pc = "done"
     /\ model \in MaskingModels
     /\ SameRealFrames
     /\ PaddingPermuted
     /\ \A b \in Videos : RealFramesNonzero(b))
    => state[1] = state[2]

\* C3: in the attention and mixture aggregators, for every video with at
\* least one nonzero slot, the frame weights are all >= 0, are 0 at every
\* all-zero slot and sum to 1 over the slots of the video.
C3_WeightsFormDistribution ==
    (pc = "done" /\ model \in {"AttentionModel", "MixLogisticModel"})
    => \A b \in Videos :
           (\E t \in Slots : NonzeroSlot(b, t))
           => /\ \A t \in Slots :
                     /\ ~IsNaN(weights[1][b][t])
                     /\ weights[1][b][t][1] >= 0
                     /\ ~NonzeroSlot(b, t) => weights[1][b][t] = RInt(0)
              /\ ReduceSum(weights[1][b]) = RInt(1)

\* an attention run on a video that holds a real all-zero frame, a real
\* nonzero frame and a nonzero slot past its frame count
C3_Witness ==
    /\ Ran("AttentionModel")
    /\ \E b \in Videos :
           /\ \E t \in Slots : t <= num_frames[b] /\ ~NonzeroSlot(b, t)
           /\ \E t \in Slots : t <= num_frames[b] /\ NonzeroSlot(b, t)
           /\ \E t \in Slots : t > num_frames[b] /\ NonzeroSlot(b, t)
           /\ ReduceSum(weights[1][b]) = RInt(1)

\* a nonzero vector v that every nonzero slot of video b holds
OnlyNonzeroVector(b, v) ==
    /\ v # ZeroVec
    /\ \E t \in Slots : model_input[b][t] = v
    /\ \A t \in Slots : model_input[b][t] \in {v, ZeroVec}

\* C4 as claimed, on the inputs most favourable to it (zero padding, a
\* nonzero v): if every real frame of a video holds the same vector v, the
\* value of output blended into the predictions at line 490 is the
\* per-frame prediction p(v), class by class.
C4_OutputEqualsFramePrediction ==
    Ran("MixLogisticModel")
    => \A b \in Videos : \A v \in Vecs \ {ZeroVec} :
           (/\ ZeroPadded(b)
            /\ \A t \in Slots : t <= num_frames[b] => model_input[b][t] = v)
           => output[b] = MixFramePrediction(v, seed)

\* C4 amended: if every nonzero slot of a video holds the same vector v, the
\* frame-weighted average prediction of line 483 is p(v) class by class,
\* and the value of output blended in at line 490 is p(v) divided by the sum
\* of p(v) over the classes.
C4_AverageEqualsFramePrediction ==
    Ran("MixLogisticModel")
    => \A b \in Videos : \A v \in Vecs :
           OnlyNonzeroVector(b, v)
           => /\ output_avg[b] = MixFramePrediction(v, seed)
              /\ output[b] =
                     LET p == MixFramePrediction(v, seed)
                     IN  [c \in Classes |-> RDiv(p[c], ReduceSum(p))]

\* a mixture run on a zero-padded video of two or more identical nonzero
\* frames and some padding, whose p(v) does not sum to 1
C4_Witness ==
    /\ Ran("MixLogisticModel")
    /\ \E b \in Videos : \E v \in Vecs :
           /\ OnlyNonzeroVector(b, v)
           /\ ZeroPadded(b)
           /\ num_frames[b] >= 2
           /\ num_frames[b] < max_frames
           /\ \A t \in Slots : t <= num_frames[b] => model_input[b][t] = v
           /\ output_avg[b] = MixFramePrediction(v, seed)
           /\ output[b] # output_avg[b]

\* C5: for every filter width w <= max_frames the convolution output, and
\* the mask slice that pools it, have max_frames - w + 1 positions; the
\* concatenated pooled vector has 400 + 300 + 200 + 100 + 100 = 1100 entries.
C5_ConvLengths ==
    model = "CnnModel"
    => /\ \A i \in 1..NumFilterSizes :
              (\A k \in 1..i : filter_sizes[k] <= max_frames)
              => /\ i \in DOMAIN h_shapes
                 /\ h_shapes[i] = max_frames - filter_sizes[i] + 1
       /\ pc = "done"
          => \A i \in 1..NumFilterSizes : \A b \in Videos :
                 /\ Len(weights[i][b]) = max_frames - filter_sizes[i] + 1
                 /\ conv_lens[i][b] = max_frames - filter_sizes[i] + 1
       /\ pc \in {"built", "done"} => out_len = 400 + 300 + 200 + 100 + 100

\* a run of the convolutional aggregator with all five filters built
C5_Witness ==
    /\ Ran("CnnModel")
    /\ Len(h_shapes) = NumFilterSizes
    /\ Len(weights[NumFilterSizes][1]) = max_frames - LargestFilter + 1
    /\ out_len = 1100

\* the length of the vector handed to the classifier, by aggregator
ExpectedLen(m) ==
    CASE m = "DbofModel" -> FLAGS_dbof_hidden_size
      [] m = "LstmModel" -> 2 * FLAGS_lstm_cells * FLAGS_lstm_layers
      [] m = "AttentionModel" -> feature_size
      [] m = "MixLogisticModel" -> feature_size
      [] m = "CnnModel" -> 400 + 300 + 200 + 100 + 100
      [] OTHER -> out_len

\* C6 as claimed: for every aggregator and every max_frames >= 1 the build
\* succeeds and the vector handed to the classifier has the
\* architecture's length, whatever max_frames is.
C6_BuildSucceedsForAllMaxFrames ==
    /\ pc # "failed"
    /\ pc \in {"built", "done"} => out_len = ExpectedLen(model)

\* C6 amended: for every max_frames >= 1, and for the convolutional
\* aggregator every max_frames >= 20 (its largest filter width), the build
\* succeeds and the vector handed to the classifier has the architecture's
\* length, whatever max_frames is; the convolutional aggregator fails to
\* build for max_frames < 20.
C6_LengthIndependentOfMaxFrames ==
    /\ pc = "failed" <=> (model = "CnnModel" /\ max_frames < LargestFilter)
    /\ pc \in {"built", "done"} => out_len = ExpectedLen(model)

\* the convolutional aggregator built for max_frames >= 20
C6_Witness ==
    /\ pc = "built"
    /\ model = "CnnModel"
    /\ max_frames >= LargestFilter
    /\ out_len = 1100

\* C7: the mask of the attention, convolutional and mixture aggregators
\* marks slot t as 1 if and only if slot t holds a nonzero feature value,
\* whatever the frame count is; a real frame of zeros is marked 0.
C7_MaskIsNonzeroTest ==
    (pc = "done" /\ model \in MaskingModels)
    => \A b \in Videos : \A t \in Slots :
           /\ frames_bool[b][t] \in {0, 1}
           /\ frames_bool[b][t] = 1 <=> NonzeroSlot(b, t)

\* a video with a real all-zero frame marked 0, a real frame whose features
\* cancel marked 1, and a nonzero slot past the frame count marked 1
C7_Witness ==
    /\ pc = "done"
    /\ model \in MaskingModels
    /\ \E b \in Videos :
           /\ \E t \in Slots :
                  /\ t <= num_frames[b]
                  /\ model_input[b][t] = ZeroVec
                  /\ frames_bool[b][t] = 0
           /\ \E t \in Slots :
                  /\ t <= num_frames[b]
                  /\ model_input[b][t] = AltVec
                  /\ frames_bool[b][t] = 1
           /\ \E t \in Slots :
                  /\ t > num_frames[b]
                  /\ NonzeroSlot(b, t)
                  /\ frames_bool[b][t] = 1

\* C8: for every video with frame count >= 1 every divisor that normalizes
\* frame weights is nonzero: the mask sum (mixture), the masked-weight sum
\* (attention) and, per filter width w, the sum of the mask over the first
\* max_frames - w + 1 slots (convolutional).
C8_DivisorsNonzero ==
    (pc = "done" /\ model \in MaskingModels)
    => \A i \in DOMAIN divisors : \A b \in Videos :
           num_frames[b] >= 1 => RPos(divisors[i][b])

\* C9: the attention weights are a softmax over the frame axis of the
\* per-frame logits, masked and renormalized, so weight(t) / weight(s) =
\* exp(logit_t - logit_s): two real frames with different logits get
\* different weights.
C9_WeightsFollowLogits ==
    Ran("AttentionModel")
    => \A b \in Videos : \A s, t \in Slots :
           (/\ s <= num_frames[b] /\ t <= num_frames[b]
            /\ frames_bool[b][s] = 1 /\ frames_bool[b][t] = 1
            /\ logits[b][s] # logits[b][t])
           => weights[1][b][s] # weights[1][b][t]

\* C10: with zero padding, every convolution output position that gets a
\* nonzero pooling weight is computed from a window of w slots that are all
\* real frames; a position whose window overlaps a padding slot gets
\* weight 0 (stated for videos whose real frames are all nonzero).
C10_WeightedWindowsAreReal ==
    Ran("CnnModel")
    => \A b \in Videos :
           (ZeroPadded(b) /\ RealFramesNonzero(b))
           => \A i \in 1..NumFilterSizes : \A t \in DOMAIN weights[i][b] :
                  RPos(weights[i][b][t])
                  => t + filter_sizes[i] - 1 <= num_frames[b]

\* the state of the stacked cell after the first k slots of x, from the zero
\* state
RECURSIVE LstmAfter(_, _, _)
LstmAfter(x, k, s) ==
    IF k = 0 THEN LstmZeroState
    ELSE MultiRNNCell(Tensor([j \in DOMAIN x[k] |-> RInt(x[k][j])]),
                      LstmAfter(x, k - 1, s), s, 1)

InLstmLoop == model = "LstmModel" /\ pc \in {"running", "done"}

\* C11: in the recurrent aggregator, after t iterations of the loop over the
\* padded sequence a video's state is the state after min(t, n) cell steps
\* over its first slots, n its sequence length: it is updated at steps
\* below n only and left unchanged from step n on; the final state handed to
\* the classifier is the state after exactly n steps, and two videos with the
\* same frames below n have the same state whatever their slots from n on
\* hold.
C11_StateFrozenPastLength ==
    InLstmLoop
    => /\ \A b \in Videos :
              state[b] = LstmAfter(model_input[b],
                                   IF time < num_frames[b] THEN time
                                   ELSE num_frames[b], seed)
       /\ SameRealFrames => state[1] = state[2]
       /\ pc = "done" => time = max_frames

\* a finished recurrent run over videos shorter than max_frames, one padded
\* with zeros and one holding a nonzero vector past its frame count, whose
\* final state is not the zero state and is not the state the cell would
\* reach by stepping over all slots
C11_Witness ==
    /\ Ran("LstmModel")
    /\ time = max_frames
    /\ num_frames[1] < max_frames
    /\ ZeroPadded(1) /\ ~ZeroPadded(2)
    /\ \A b \in Videos :
           /\ state[b] # LstmZeroState
           /\ state[b] # LstmAfter(model_input[b], max_frames, seed)

\* a value Python treats as false
Falsy(a) == a \in {"None", "False"}

\* C12: DbofModel.create_model resolves each boolean option as (argument or
\* flag): the contiguous-sequence sampler is called if and only if the
\* sample_random_frames argument is falsy and the flag is false, otherwise
\* the independent-frames sampler; batch normalization is skipped (and the
\* bias variables created) if and only if the add_batch_norm argument is
\* falsy and the flag is false; so an argument of False never overrides a
\* flag that is true, and one of the two samplers is called on every call,
\* leaving `iterations` frames.
C12_OptionsAreArgumentOrFlag ==
    model = "DbofModel"
    => /\ dbof.sampler = "SampleRandomSequence"
          <=> (Falsy(dbof.arg_sample_random_frames)
               /\ dbof.flag_sample_random_frames = "False")
       /\ dbof.sampler \in {"SampleRandomSequence", "SampleRandomFrames"}
       /\ dbof.sampled_frames = FLAGS_iterations
       /\ dbof.batch_norms = << >>
          <=> (Falsy(dbof.arg_add_batch_norm)
               /\ dbof.flag_add_batch_norm = "False")
       /\ dbof.batch_norms = << >> <=> dbof.biases # << >>
       /\ (dbof.arg_sample_random_frames = "False"
           /\ dbof.flag_sample_random_frames = "True")
          => dbof.sampler = "SampleRandomFrames"
       /\ (dbof.arg_add_batch_norm = "False"
           /\ dbof.flag_add_batch_norm = "True")
          => Len(dbof.batch_norms) = 3

\* a build called with both arguments False while both flags are true
C12_Witness ==
    /\ model = "DbofModel"
    /\ pc = "built"
    /\ dbof.arg_sample_random_frames = "False"
    /\ dbof.flag_sample_random_frames = "True"
    /\ dbof.arg_add_batch_norm = "False"
    /\ dbof.flag_add_batch_norm = "True"
    /\ dbof.sampler = "SampleRandomFrames"
    /\ Len(dbof.batch_norms) = 3

====
